---- MODULE Spec2Model ----
(***************************************************************************)
(* findates: business-day calendars, date adjustment, schedule generation. *)
(*                                                                         *)
(* A date (chrono::NaiveDate) is an integer, the number of days since      *)
(* 1970-01-01 in the proleptic Gregorian calendar.  The representable      *)
(* range of NaiveDate is scaled down to MinDate..MaxDate; arithmetic that  *)
(* leaves it fails, as chrono's checked_* operations do.                   *)
(***************************************************************************)
EXTENDS Integers, Sequences, FiniteSets

VARIABLES
    cal,          \* the Calendar object: [weekend, holidays]
    schedule,     \* the Schedule object: [frequency, calendar, adjust_rule]
    pc,           \* "idle", "collect" (inside generate), "done", "panicked"
    call,         \* the inputs of the call made, as a record
    res,          \* what the call returned
    anchor,       \* ScheduleIterator.anchor, the cursor of the iterator
    out,          \* the vector generate() is collecting
    past          \* history: the calendar at the start, and the sets added since

vars == <<cal, schedule, pc, call, res, anchor, out, past>>

----------------------------------------------------------------------------
(* Option<T>: None is the empty set, Some(x) the singleton.                *)

None == {}

Some(x) == {x}

unwrap(o) == CHOOSE x \in o : TRUE

----------------------------------------------------------------------------
(* The civil-date primitive (chrono).                                      *)

\* Days from 1970-01-01 to year-month-day.
from_ymd(y, m, d) ==
    LET yy  == IF m <= 2 THEN y - 1 ELSE y
        era == yy \div 400
        yoe == yy - era * 400
        mp  == IF m > 2 THEN m - 3 ELSE m + 9
        doy == (153 * mp + 2) \div 5 + d - 1
        doe == yoe * 365 + yoe \div 4 - yoe \div 100 + doy
    IN  era * 146097 + doe - 719468

\* The civil date of a day number, as [year, month, day].
civil(n) ==
    LET z   == n + 719468
        era == z \div 146097
        doe == z - era * 146097
        yoe == (doe - doe \div 1460 + doe \div 36524 - doe \div 146096) \div 365
        doy == doe - (365 * yoe + yoe \div 4 - yoe \div 100)
        mp  == (5 * doy + 2) \div 153
        d   == doy - (153 * mp + 2) \div 5 + 1
        m   == IF mp < 10 THEN mp + 3 ELSE mp - 9
        y   == yoe + era * 400 + (IF m <= 2 THEN 1 ELSE 0)
    IN  [year |-> y, month |-> m, day |-> d]

year(n) == civil(n).year

month(n) == civil(n).month

day(n) == civil(n).day

Weekday == <<"Mon", "Tue", "Wed", "Thu", "Fri", "Sat", "Sun">>

\* 1970-01-01 was a Thursday.
weekday(n) == Weekday[((n + 3) % 7) + 1]

is_leap_year(y) == (y % 4 = 0 /\ y % 100 # 0) \/ y % 400 = 0

days_in_month(y, m) ==
    IF m = 2 THEN (IF is_leap_year(y) THEN 29 ELSE 28)
    ELSE IF m \in {4, 6, 9, 11} THEN 30 ELSE 31

\* The scaled-down representable range of NaiveDate.
MinDate == from_ymd(2023, 8, 12)

RangeDays == 3794

MaxDate == MinDate + RangeDays

Dates == MinDate .. MaxDate

\* checked_add_days / checked_sub_days / checked_add_signed: None outside the range.
checked_add_days(date, t) ==
    IF date + t \in Dates THEN Some(date + t) ELSE None

checked_sub_days(date, t) ==
    IF date - t \in Dates THEN Some(date - t) ELSE None

\* checked_add_months: the day of month is clamped to the last day of the
\* target month.
checked_add_months(date, months) ==
    LET c  == civil(date)
        k  == (c.year * 12 + (c.month - 1)) + months
        y  == k \div 12
        m  == (k % 12) + 1
        dm == days_in_month(y, m)
        d  == IF c.day > dm THEN dm ELSE c.day
        n  == from_ymd(y, m, d)
    IN  IF n \in Dates THEN Some(n) ELSE None

abs(i) == IF i < 0 THEN 0 - i ELSE i

----------------------------------------------------------------------------
(* calendar.rs                                                             *)

Calendar_new == [weekend |-> {}, holidays |-> {}]

basic_calendar == [weekend |-> {"Sat", "Sun"}, holidays |-> {}]

\* The holidays given replace the ones of the calendar.
add_holidays_replacing(self, holidays) ==
    [self EXCEPT !.holidays = holidays]

add_holidays(self, holidays) ==
    [self EXCEPT !.holidays = self.holidays \cup holidays]

add_weekends(self, weekends) ==
    [self EXCEPT !.weekend = self.weekend \cup weekends]

\* Calendar::union
union(self, calendar) ==
    [weekend |-> self.weekend \cup calendar.weekend,
     holidays |-> self.holidays \cup calendar.holidays]

\* Only the holidays are intersected.
intersection_of_holidays(self, calendar) ==
    [weekend |-> self.weekend,
     holidays |-> self.holidays \cap calendar.holidays]

\* Calendar::intersection
intersection(self, calendar) ==
    [weekend |-> self.weekend \cap calendar.weekend,
     holidays |-> self.holidays \cap calendar.holidays]

\* calendars.iter().for_each(|cal| result_cal.union(cal))
RECURSIVE for_each_union(_, _)
for_each_union(result_cal, calendars) ==
    IF calendars = <<>> THEN result_cal
    ELSE for_each_union(union(result_cal, Head(calendars)), Tail(calendars))

calendar_unions(calendars) == for_each_union(Calendar_new, calendars)

\* Calendar::holiday_propagate: without holidays it returns at once; with
\* holidays it computes the target year, the earliest year and the days and
\* months, whose two branches are empty, and then assigns a new HashSet.
holiday_propagate(self, target_date) ==
    IF self.holidays = {} THEN self
    ELSE [self EXCEPT !.holidays = {}]

----------------------------------------------------------------------------
(* conventions.rs                                                          *)

AdjustRule ==
    {"Following", "ModFollowing", "Preceding", "ModPreceding", "Unadjusted",
     "HalfMonthModFollowing", "Nearest"}

\* Result<T, E>
Ok(v) == [ok |-> TRUE, value |-> v]

Err(e) == [ok |-> FALSE, err |-> e]

\* enum DayCount of conventions.rs
DayCountVariants == {"Act360", "Act365", "Bd252", "ActAct", "D30360", "D30365"}

\* impl fmt::Display for DayCount
DayCount_fmt(self) ==
    CASE self = "Act360" -> "Act360"
      [] self = "Act365" -> "Act365"
      [] self = "Bd252"  -> "Bd252"
      [] self = "ActAct" -> "ActAct"
      [] self = "D30360" -> "D30360"
      [] self = "D30365" -> "D30365"

\* impl FromStr for DayCount
DayCount_from_str(s) ==
    CASE s = "Act360" -> Ok("Act360")
      [] s = "Act365" -> Ok("Act365")
      [] s = "Bd2532" -> Ok("Bd252")
      [] s = "ActAct" -> Ok("ActAct")
      [] s = "D30360" -> Ok("D30360")
      [] s = "D30365" -> Ok("D30365")
      [] OTHER        -> Err("ParseDayCountError")

\* impl fmt::Display for AdjustRule
AdjustRule_fmt(self) ==
    CASE self = "Following"             -> "Following"
      [] self = "ModFollowing"          -> "ModFollowing"
      [] self = "Preceding"             -> "Preceding"
      [] self = "ModPreceding"          -> "ModPreceding"
      [] self = "Unadjusted"            -> "Unadjusted"
      [] self = "HalfMonthModFollowing" -> "HalfMonthModFollowing"
      [] self = "Nearest"               -> "Nearest"

\* impl FromStr for AdjustRule
AdjustRule_from_str(s) ==
    CASE s = "Following"             -> Ok("Following")
      [] s = "ModFollowing"          -> Ok("ModFollowing")
      [] s = "Preceding"             -> Ok("Preceding")
      [] s = "ModPreceding"          -> Ok("ModPreceding")
      [] s = "Unadjusted"            -> Ok("Unadjusted")
      [] s = "HalfMonthModFollowing" -> Ok("HalfMonthModFollowing")
      [] s = "Nearest"               -> Ok("Nearest")
      [] OTHER                       -> Err("ParseAdjustRuleError")

\* enum Frequency of conventions.rs
FrequencyVariants ==
    {"NoFrequency", "Once", "Annual", "Semiannual", "EveryFourthMonth",
     "Quarterly", "Bimonthly", "Monthly", "EveryFourthWeek", "Biweekly",
     "Weekly", "Daily", "OtherFrequency"}

\* impl fmt::Display for Frequency
Frequency_fmt(self) ==
    CASE self = "NoFrequency"      -> "NoFrequency"
      [] self = "Once"             -> "Once"
      [] self = "Annual"           -> "Annual"
      [] self = "Semiannual"       -> "Semiannual"
      [] self = "EveryFourthMonth" -> "EveryFourthMonth"
      [] self = "Quarterly"        -> "Quarterly"
      [] self = "Bimonthly"        -> "Bimonthly"
      [] self = "Monthly"          -> "Monthly"
      [] self = "EveryFourthWeek"  -> "EveryFourthWeek"
      [] self = "Biweekly"         -> "Biweekly"
      [] self = "Weekly"           -> "Weekly"
      [] self = "Daily"            -> "Daily"
      [] self = "OtherFrequency"   -> "OtherFrequency"

\* impl FromStr for Frequency
Frequency_from_str(s) ==
    CASE s = "NoFrequency"      -> Ok("NoFrequency")
      [] s = "Once"             -> Ok("Once")
      [] s = "Annual"           -> Ok("Annual")
      [] s = "Semiannual"       -> Ok("Semiannual")
      [] s = "EveryFourthMonth" -> Ok("EveryFourthMonth")
      [] s = "Quarterly"        -> Ok("Quarterly")
      [] s = "Bimonthly"        -> Ok("Bimonthly")
      [] s = "Monthly"          -> Ok("Monthly")
      [] s = "EveryFourthWeek"  -> Ok("EveryFourthWeek")
      [] s = "Biweekly"         -> Ok("Biweekly")
      [] s = "Weekly"           -> Ok("Weekly")
      [] s = "Daily"            -> Ok("Daily")
      [] s = "OtherFrequency"   -> Ok("OtherFrequency")
      [] OTHER                  -> Err("ParseFrequencyError")

\* The three enums that are written and parsed.
Enums == {"DayCount", "AdjustRule", "Frequency"}

VariantsOf(enum) ==
    CASE enum = "DayCount"   -> DayCountVariants
      [] enum = "AdjustRule" -> AdjustRule
      [] enum = "Frequency"  -> FrequencyVariants

\* v.to_string()
to_string(enum, v) ==
    CASE enum = "DayCount"   -> DayCount_fmt(v)
      [] enum = "AdjustRule" -> AdjustRule_fmt(v)
      [] enum = "Frequency"  -> Frequency_fmt(v)

\* s.parse::<enum>()
from_str(enum, s) ==
    CASE enum = "DayCount"   -> DayCount_from_str(s)
      [] enum = "AdjustRule" -> AdjustRule_from_str(s)
      [] enum = "Frequency"  -> Frequency_from_str(s)

\* Option<AdjustRule>
OptAdjustRule == {None} \cup {Some(r) : r \in AdjustRule}

----------------------------------------------------------------------------
(* algebra.rs                                                              *)

\* What a call that can panic does: it returns a date, or it panics.
Returned(d) == [panic |-> FALSE, date |-> d]

Panicked == [panic |-> TRUE]

\* Mutant: the holiday set is not consulted.
is_business_day_weekend_only(date, calendar) ==
    IF weekday(date) \in calendar.weekend THEN FALSE ELSE TRUE

is_business_day(date, calendar) ==
    IF weekday(date) \in calendar.weekend THEN FALSE
    ELSE IF date \in calendar.holidays THEN FALSE
    ELSE TRUE

\* One turn of the loop of add_adjust: adj_date is date + t, if representable.
RECURSIVE add_adjust_loop(_, _, _, _)
add_adjust_loop(date, calendar, t, adj_date) ==
    IF adj_date = None THEN Panicked
    ELSE IF is_business_day(unwrap(adj_date), calendar)
         THEN Returned(unwrap(adj_date))
         ELSE add_adjust_loop(date, calendar, t + 1, checked_add_days(date, t + 1))

\* Mutant: the forward search stops at the first day after the date.
add_adjust_one_day(date, calendar) ==
    IF checked_add_days(date, 1) = None THEN Panicked
    ELSE Returned(unwrap(checked_add_days(date, 1)))

add_adjust(date, calendar) ==
    add_adjust_loop(date, calendar, 1, checked_add_days(date, 1))

\* One turn of the loop of sub_adjust: adj_date is date - t, if representable.
RECURSIVE sub_adjust_loop(_, _, _, _)
sub_adjust_loop(date, calendar, t, adj_date) ==
    IF adj_date = None THEN Panicked
    ELSE IF is_business_day(unwrap(adj_date), calendar)
         THEN Returned(unwrap(adj_date))
         ELSE sub_adjust_loop(date, calendar, t + 1, checked_sub_days(date, t + 1))

\* The backward search stops at the first date of the range.
sub_adjust_stops_at_first(date, calendar) ==
    IF sub_adjust_loop(date, calendar, 1, checked_sub_days(date, 1)).panic
    THEN Returned(MinDate)
    ELSE sub_adjust_loop(date, calendar, 1, checked_sub_days(date, 1))

sub_adjust(date, calendar) ==
    sub_adjust_loop(date, calendar, 1, checked_sub_days(date, 1))

\* Mutant: the month check is dropped (plain Following).
adjust_ModFollowing_no_month_check(date, calendar, adj_date) == adj_date

\* The ModFollowing arm, adj_date being add_adjust(date, calendar).
adjust_ModFollowing(date, calendar, adj_date) ==
    IF adj_date.panic THEN Panicked
    ELSE IF month(adj_date.date) # month(date)
         THEN sub_adjust(date, calendar)
         ELSE adj_date

\* Mutant: the month check is dropped (plain Preceding).
adjust_ModPreceding_no_month_check(date, calendar, adj_date) == adj_date

\* The ModPreceding arm, adj_date being sub_adjust(date, calendar).
adjust_ModPreceding(date, calendar, adj_date) ==
    IF adj_date.panic THEN Panicked
    ELSE IF month(adj_date.date) # month(date)
         THEN add_adjust(date, calendar)
         ELSE adj_date

\* Mutant: the mid-month check is dropped (ModFollowing).
adjust_HalfMonth_no_mid_check(date, calendar, adj_date) ==
    adjust_ModFollowing(date, calendar, adj_date)

\* The HalfMonthModFollowing arm, adj_date being add_adjust(date, calendar).
adjust_HalfMonthModFollowing(date, calendar, adj_date) ==
    IF adj_date.panic THEN Panicked
    ELSE IF month(adj_date.date) # month(date)
         THEN sub_adjust(date, calendar)
         ELSE IF day(date) <= 15 /\ day(adj_date.date) > 15
              THEN sub_adjust(date, calendar)
              ELSE adj_date

\* Mutant: a tie goes to the preceding date (< for <=).
adjust_Nearest_tie_preceding(date, follow_date, prec_date) ==
    IF follow_date.panic \/ prec_date.panic THEN Panicked
    ELSE IF abs(follow_date.date - date) < abs(prec_date.date - date)
         THEN follow_date
         ELSE prec_date

\* The Nearest arm, follow_date and prec_date being add_adjust(date, calendar)
\* and sub_adjust(date, calendar).
adjust_Nearest(date, follow_date, prec_date) ==
    IF follow_date.panic \/ prec_date.panic THEN Panicked
    ELSE IF abs(follow_date.date - date) <= abs(prec_date.date - date)
         THEN follow_date
         ELSE prec_date

\* Every rule moves the date to the day after it.
adjust_rule_arm_next_day(date, calendar, adjust_rule) ==
    IF checked_add_days(date, 1) = None THEN Panicked
    ELSE Returned(unwrap(checked_add_days(date, 1)))

adjust_rule_arm(date, calendar, adjust_rule) ==
    CASE adjust_rule = None                -> Returned(date)
      [] adjust_rule = Some("Unadjusted")  -> Returned(date)
      [] adjust_rule = Some("Following")   -> add_adjust(date, calendar)
      [] adjust_rule = Some("ModFollowing") ->
            adjust_ModFollowing(date, calendar, add_adjust(date, calendar))
      [] adjust_rule = Some("Preceding")   -> sub_adjust(date, calendar)
      [] adjust_rule = Some("ModPreceding") ->
            adjust_ModPreceding(date, calendar, sub_adjust(date, calendar))
      [] adjust_rule = Some("HalfMonthModFollowing") ->
            adjust_HalfMonthModFollowing(date, calendar, add_adjust(date, calendar))
      [] adjust_rule = Some("Nearest") ->
            adjust_Nearest(date, add_adjust(date, calendar), sub_adjust(date, calendar))

\* Mutant: the rule is applied to a business day too.
adjust_no_good_day_check(date, opt_calendar, adjust_rule) ==
    IF opt_calendar = None THEN Returned(date)
    ELSE adjust_rule_arm(date, unwrap(opt_calendar), adjust_rule)

adjust(date, opt_calendar, adjust_rule) ==
    IF opt_calendar = None THEN Returned(date)
    ELSE IF is_business_day(date, unwrap(opt_calendar)) THEN Returned(date)
    ELSE adjust_rule_arm(date, unwrap(opt_calendar), adjust_rule)

\* A missing rule stays missing.
default_none(adjust_rule) == adjust_rule

\* bus_day_schedule and day_count_fraction default a missing rule.
default_Following(adjust_rule) ==
    IF adjust_rule = None THEN Some("Following") ELSE adjust_rule

\* A vector of dates is returned.
ReturnedVec(v) == [panic |-> FALSE, value |-> v]

\* The inner loop of bus_day_schedule: next_bus_day is the adjusted date
\* tried last, for previous_bus_day + t; it ends when that is after
\* previous_bus_day.
RECURSIVE next_bus_day_loop(_, _, _, _, _)
next_bus_day_loop(previous_bus_day, next_bus_day, t, calendar, rule) ==
    IF next_bus_day.panic THEN Panicked
    ELSE IF next_bus_day.date > previous_bus_day THEN next_bus_day
    ELSE IF checked_add_days(previous_bus_day, t + 1) = None THEN Panicked
    ELSE next_bus_day_loop(previous_bus_day,
                           adjust(unwrap(checked_add_days(previous_bus_day, t + 1)),
                                  Some(calendar), rule),
                           t + 1, calendar, rule)

\* The body of the while loop up to the break: the date pushed next.
next_bus_day_of(previous_bus_day, calendar, rule) ==
    IF checked_add_days(previous_bus_day, 1) = None THEN Panicked
    ELSE next_bus_day_loop(previous_bus_day,
                           adjust(unwrap(checked_add_days(previous_bus_day, 1)),
                                  Some(calendar), rule),
                           1, calendar, rule)

\* One turn of the while loop: next_bus_day is pushed.
bus_day_push(schedule_vec, next_bus_day) ==
    IF next_bus_day.panic THEN Panicked
    ELSE ReturnedVec(Append(schedule_vec.value, next_bus_day.date))

\* The dates are increasing days of the range, so the while loop takes
\* fewer than 2^LoopDepth turns.
LoopDepth == 12

\* The while loop of bus_day_schedule, run for at most 2^depth turns, in two
\* halves; schedule_vec is the vector so far, its last element is
\* previous_bus_day.
RECURSIVE bus_day_while(_, _, _, _, _)
bus_day_while(schedule_vec, new_end, calendar, rule, depth) ==
    IF schedule_vec.panic THEN Panicked
    ELSE IF ~(schedule_vec.value[Len(schedule_vec.value)] < new_end)
         THEN schedule_vec
    ELSE IF depth = 0
         THEN bus_day_push(schedule_vec,
                           next_bus_day_of(schedule_vec.value[Len(schedule_vec.value)],
                                           calendar, rule))
    ELSE bus_day_while(bus_day_while(schedule_vec, new_end, calendar, rule, depth - 1),
                       new_end, calendar, rule, depth - 1)

\* bus_day_schedule once both ends are adjusted.
bus_day_from(new_start, new_end, calendar, rule) ==
    IF new_start.panic \/ new_end.panic THEN Panicked
    ELSE bus_day_while(ReturnedVec(<<new_start.date>>), new_end.date,
                       calendar, rule, LoopDepth)

\* The end date is taken as given.
bus_day_schedule_end_unadjusted(start_date, end_date, calendar, adjust_rule) ==
    bus_day_from(adjust(start_date, Some(calendar), default_Following(adjust_rule)),
                 Returned(end_date), calendar, default_Following(adjust_rule))

bus_day_schedule(start_date, end_date, calendar, adjust_rule) ==
    bus_day_from(adjust(start_date, Some(calendar), default_Following(adjust_rule)),
                 adjust(end_date, Some(calendar), default_Following(adjust_rule)),
                 calendar, default_Following(adjust_rule))

\* The length of the schedule, less one.
schedule_len_less_one(schedule_vec) ==
    IF schedule_vec.panic THEN Panicked
    ELSE [panic |-> FALSE, value |-> Len(schedule_vec.value) - 1]

business_days_between(start_date, end_date, calendar, adjust_rule) ==
    schedule_len_less_one(bus_day_schedule(start_date, end_date, calendar, adjust_rule))

\* The conventions day_count_fraction has an arm for.
DayCount == {"Act360", "Act365", "ActActISDA", "D30360Euro", "D30365", "Bd252"}

\* The f64 returned, kept exact as the quotient num / den of the integers
\* the code divides; swaps counts the calls day_count_fraction made to
\* itself on the way.
Frac(num, den) == [panic |-> FALSE, num |-> num, den |-> den, swaps |-> 0]

\* The result of the call made with the dates swapped.
Swapped(r) == IF r.panic THEN Panicked ELSE [r EXCEPT !.swaps = @ + 1]

\* The number of days of a year.
year_base(y) == IF is_leap_year(y) THEN 366 ELSE 365

\* Both parts of a year are divided by the days of the end year.
dcf_ActActISDA_years_one_base(start_adjusted, end_adjusted) ==
    Frac((year(end_adjusted) - year(start_adjusted) - 1) * year_base(year(end_adjusted))
         + (from_ymd(year(start_adjusted) + 1, 1, 1) - start_adjusted)
         + (end_adjusted - from_ymd(year(end_adjusted), 1, 1)),
         year_base(year(end_adjusted)))

\* The last branch of the ActActISDA arm: whole years between, plus the
\* rest of the start year and the begun part of the end year.
dcf_ActActISDA_years(start_adjusted, end_adjusted) ==
    Frac((year(end_adjusted) - year(start_adjusted) - 1)
             * year_base(year(start_adjusted)) * year_base(year(end_adjusted))
         + (from_ymd(year(start_adjusted) + 1, 1, 1) - start_adjusted)
             * year_base(year(end_adjusted))
         + (end_adjusted - from_ymd(year(end_adjusted), 1, 1))
             * year_base(year(start_adjusted)),
         year_base(year(start_adjusted)) * year_base(year(end_adjusted)))

\* The clamping of the D30360Euro arm.
clamp_31(d) == IF d = 31 THEN 30 ELSE d

dcf_D30360Euro(start_adjusted, end_adjusted) ==
    Frac(360 * (year(end_adjusted) - year(start_adjusted))
             + 30 * (month(end_adjusted) - month(start_adjusted))
             + (clamp_31(day(end_adjusted)) - clamp_31(day(start_adjusted))),
         360)

\* Mutant: the D30365 arm clamps as the D30360Euro arm does.
dcf_D30365_clamped(start_adjusted, end_adjusted) ==
    Frac(360 * (year(end_adjusted) - year(start_adjusted))
             + 30 * (month(end_adjusted) - month(start_adjusted))
             + (clamp_31(day(end_adjusted)) - clamp_31(day(start_adjusted))),
         365)

dcf_D30365(start_adjusted, end_adjusted) ==
    Frac(360 * (year(end_adjusted) - year(start_adjusted))
             + 30 * (month(end_adjusted) - month(start_adjusted))
             + (day(end_adjusted) - day(start_adjusted)),
         365)

\* The division of the Bd252 arm.
dcf_Bd252_of(bus_days) ==
    IF bus_days.panic THEN Panicked ELSE Frac(bus_days.value, 252)

\* The panic of the Bd252 arm.
MissingCalendar == [panic |-> TRUE, msg |-> "Bd252 Day count requires a Calendar input!"]

\* Mutant: without a calendar every day counts as a business day.
dcf_Bd252_empty_calendar(start_adjusted, end_adjusted, calendar, some_adjust_rule) ==
    IF calendar = None
    THEN dcf_Bd252_of(business_days_between(start_adjusted, end_adjusted,
                                            Calendar_new, some_adjust_rule))
    ELSE dcf_Bd252_of(business_days_between(start_adjusted, end_adjusted,
                                            unwrap(calendar), some_adjust_rule))

\* The Bd252 arm.
dcf_Bd252(start_adjusted, end_adjusted, calendar, some_adjust_rule) ==
    IF calendar = None THEN MissingCalendar
    ELSE dcf_Bd252_of(business_days_between(start_adjusted, end_adjusted,
                                            unwrap(calendar), some_adjust_rule))

RECURSIVE day_count_fraction(_, _, _, _, _)

\* Mutant: reversed dates are not swapped.
dcf_ActActISDA_no_swap(start_adjusted, end_adjusted, delta, calendar, some_adjust_rule) ==
    IF start_adjusted = end_adjusted THEN Frac(0, 1)
    ELSE IF year(start_adjusted) = year(end_adjusted)
         THEN Frac(delta, year_base(year(start_adjusted)))
         ELSE dcf_ActActISDA_years(start_adjusted, end_adjusted)

\* The ActActISDA arm.
dcf_ActActISDA(start_adjusted, end_adjusted, delta, calendar, some_adjust_rule) ==
    IF start_adjusted = end_adjusted THEN Frac(0, 1)
    ELSE IF year(start_adjusted) = year(end_adjusted)
            /\ is_leap_year(year(start_adjusted))
         THEN Frac(delta, 366)
    ELSE IF year(start_adjusted) = year(end_adjusted)
            /\ ~is_leap_year(year(start_adjusted))
         THEN Frac(delta, 365)
    ELSE IF start_adjusted > end_adjusted
         THEN Swapped(day_count_fraction(end_adjusted, start_adjusted, "ActActISDA",
                                         calendar, some_adjust_rule))
    ELSE dcf_ActActISDA_years(start_adjusted, end_adjusted)

\* The match on the convention.
dcf_match(start_adjusted, end_adjusted, delta, daycount, calendar, some_adjust_rule) ==
    CASE daycount = "Act360" -> Frac(delta, 360)
      [] daycount = "Act365" -> Frac(delta, 365)
      [] daycount = "ActActISDA" ->
            dcf_ActActISDA(start_adjusted, end_adjusted, delta, calendar,
                           some_adjust_rule)
      [] daycount = "D30360Euro" -> dcf_D30360Euro(start_adjusted, end_adjusted)
      [] daycount = "D30365" -> dcf_D30365(start_adjusted, end_adjusted)
      [] daycount = "Bd252" ->
            dcf_Bd252(start_adjusted, end_adjusted, calendar, some_adjust_rule)

\* day_count_fraction with a calendar, once both dates are adjusted.
dcf_adjusted(start_adjusted, end_adjusted, daycount, calendar, some_adjust_rule) ==
    IF start_adjusted.panic \/ end_adjusted.panic THEN Panicked
    ELSE dcf_match(start_adjusted.date, end_adjusted.date,
                   abs(start_adjusted.date - end_adjusted.date),
                   daycount, calendar, some_adjust_rule)

day_count_fraction(start_date, end_date, daycount, calendar, adjust_rule) ==
    IF calendar = None
    THEN dcf_match(start_date, end_date, abs(end_date - start_date),
                   daycount, calendar, adjust_rule)
    ELSE dcf_adjusted(adjust(start_date, calendar, default_Following(adjust_rule)),
                      adjust(end_date, calendar, default_Following(adjust_rule)),
                      daycount, calendar, default_Following(adjust_rule))

----------------------------------------------------------------------------
(* schedule.rs                                                             *)

\* The frequencies schedule_next has an arm for.
Frequency ==
    {"Daily", "Weekly", "Biweekly", "EveryFourthWeek", "Monthly", "Bimonthly",
     "Quarterly", "EveryFourthMonth", "Semiannual", "Annual", "Once"}

Schedule_new(frequency, opt_calendar, opt_adjust_rule) ==
    [frequency |-> frequency, calendar |-> opt_calendar,
     adjust_rule |-> opt_adjust_rule]

\* The correction loop of force_add_duration_adjust and
\* force_add_months_adjust: res is the adjusted date tried last, dayi the
\* day to try next; it ends when res is after the anchor.
RECURSIVE force_loop(_, _, _, _, _)
force_loop(anchor_date, res_date, dayi, opt_calendar, opt_adjust_rule) ==
    IF res_date.panic THEN Panicked
    ELSE IF res_date.date <= anchor_date
         THEN IF checked_add_days(anchor_date, dayi) = None THEN Panicked
              ELSE force_loop(anchor_date,
                              adjust(unwrap(checked_add_days(anchor_date, dayi)),
                                     opt_calendar, opt_adjust_rule),
                              dayi + 1, opt_calendar, opt_adjust_rule)
         ELSE res_date

\* What both force_add functions do with the stepped date raw.
force_adjust(anchor_date, raw, opt_calendar, opt_adjust_rule) ==
    IF raw = None THEN Panicked
    ELSE force_loop(anchor_date, adjust(unwrap(raw), opt_calendar, opt_adjust_rule),
                    1, opt_calendar, opt_adjust_rule)

\* Mutant: the adjusted date is returned without the correction loop.
force_add_duration_no_loop(anchor_date, delta, opt_calendar, opt_adjust_rule) ==
    IF checked_add_days(anchor_date, delta) = None THEN Panicked
    ELSE adjust(unwrap(checked_add_days(anchor_date, delta)),
                opt_calendar, opt_adjust_rule)

\* Mutant: the correction loop does not adjust the dates it tries.
force_add_duration_loop_unadjusted(anchor_date, delta, opt_calendar, opt_adjust_rule) ==
    IF checked_add_days(anchor_date, delta) = None THEN Panicked
    ELSE force_loop(anchor_date,
                    adjust(unwrap(checked_add_days(anchor_date, delta)),
                           opt_calendar, opt_adjust_rule),
                    1, None, None)

\* delta is a Duration of whole days.
force_add_duration_adjust(anchor_date, delta, opt_calendar, opt_adjust_rule) ==
    force_adjust(anchor_date, checked_add_days(anchor_date, delta),
                 opt_calendar, opt_adjust_rule)

\* The date stepped by months is adjusted once, and returned.
force_add_months_no_loop(anchor_date, delta, opt_calendar, opt_adjust_rule) ==
    IF checked_add_months(anchor_date, delta) = None THEN Panicked
    ELSE adjust(unwrap(checked_add_months(anchor_date, delta)),
                opt_calendar, opt_adjust_rule)

\* delta is a number of Months.
force_add_months_adjust(anchor_date, delta, opt_calendar, opt_adjust_rule) ==
    force_adjust(anchor_date, checked_add_months(anchor_date, delta),
                 opt_calendar, opt_adjust_rule)

schedule_next(anchor_date, frequency, opt_calendar, opt_adjust_rule) ==
    CASE frequency = "Daily" ->
            force_add_duration_adjust(anchor_date, 1, opt_calendar, opt_adjust_rule)
      [] frequency = "Weekly" ->
            force_add_duration_adjust(anchor_date, 7, opt_calendar, opt_adjust_rule)
      [] frequency = "Biweekly" ->
            force_add_duration_adjust(anchor_date, 14, opt_calendar, opt_adjust_rule)
      [] frequency = "EveryFourthWeek" ->
            force_add_duration_adjust(anchor_date, 28, opt_calendar, opt_adjust_rule)
      [] frequency = "Monthly" ->
            force_add_months_adjust(anchor_date, 1, opt_calendar, opt_adjust_rule)
      [] frequency = "Bimonthly" ->
            force_add_months_adjust(anchor_date, 2, opt_calendar, opt_adjust_rule)
      [] frequency = "Quarterly" ->
            force_add_months_adjust(anchor_date, 3, opt_calendar, opt_adjust_rule)
      [] frequency = "EveryFourthMonth" ->
            force_add_months_adjust(anchor_date, 4, opt_calendar, opt_adjust_rule)
      [] frequency = "Semiannual" ->
            force_add_months_adjust(anchor_date, 6, opt_calendar, opt_adjust_rule)
      [] frequency = "Annual" ->
            force_add_months_adjust(anchor_date, 12, opt_calendar, opt_adjust_rule)
      [] frequency = "Once" -> Returned(anchor_date)

\* ScheduleIterator::next: the date pulled, which is the next anchor.
schedule_iterator_next(sch, anchor_date) ==
    schedule_next(anchor_date, sch.frequency, sch.calendar, sch.adjust_rule)

\* Mutant: an end date equal to the anchor is let through.
end_before_anchor(anchor_date, end_date) == end_date < anchor_date

\* The input check of generate.
end_not_after_anchor(anchor_date, end_date) == end_date <= anchor_date

\* Mutant: the end date is let through.
take_while_up_to_end(x, end_date) == x <= end_date

\* The predicate of generate's take_while.
take_while_before_end(x, end_date) == x < end_date

----------------------------------------------------------------------------
(* The inputs the operations are called with.                              *)

EdgeDays == 2

WindowDays == 80

WindowStart == from_ymd(2023, 12, 15)

\* The first and the last days of the representable range, and a window
\* holding a year end, mid-month days and a leap February.
InputDates ==
    (MinDate .. MinDate + EdgeDays)
        \cup (WindowStart .. WindowStart + WindowDays)
        \cup (MaxDate - EdgeDays .. MaxDate)

\* Christmas and Boxing day (the tests' Setup), a mid-month holiday, and a
\* month-long holiday (schedule.rs:87).
HolidayInputs ==
    { {from_ymd(2023, 12, 25), from_ymd(2023, 12, 26)},
      {from_ymd(2024, 1, 15)},
      from_ymd(2024, 2, 1) .. from_ymd(2024, 2, 29) }

WeekendInputs == { {"Sat", "Sun"}, {"Fri"} }

\* The history of a calendar nothing was added to yet.
NoneAdded(c) == [initial |-> c, holidays |-> {}, weekends |-> {}]

NoCall == [op |-> "none"]

NoRes == [op |-> "none"]

----------------------------------------------------------------------------
(* The state machine: a calendar is built, then an operation is called.    *)

\* No schedule is used by the calls on a calendar alone.
NoSchedule == [frequency |-> "Once", calendar |-> None, adjust_rule |-> None]

Init ==
    /\ cal = Calendar_new
    /\ schedule = NoSchedule
    /\ pc = "idle"
    /\ call = NoCall
    /\ res = NoRes
    /\ anchor = MinDate
    /\ out = <<>>
    /\ past = NoneAdded(cal)

AddHolidays ==
    \E holidays \in HolidayInputs :
        /\ pc = "idle"
        /\ cal' = add_holidays(cal, holidays)
        /\ past' = [past EXCEPT !.holidays = @ \cup {holidays}]
        /\ UNCHANGED <<schedule, pc, call, res, anchor, out>>

AddWeekends ==
    \E weekends \in WeekendInputs :
        /\ pc = "idle"
        /\ cal' = add_weekends(cal, weekends)
        /\ past' = [past EXCEPT !.weekends = @ \cup {weekends}]
        /\ UNCHANGED <<schedule, pc, call, res, anchor, out>>

IsBusinessDay ==
    \E date \in InputDates :
        /\ pc = "idle"
        /\ call' = [op |-> "is_business_day", date |-> date, calendar |-> cal]
        /\ res' = [op |-> "is_business_day", value |-> is_business_day(date, cal)]
        /\ pc' = "done"
        /\ UNCHANGED <<past, cal, schedule, anchor, out>>

\* The call returns r, or panics.
AdjustReturns(r) ==
    /\ res' = [op |-> "adjust", panic |-> r.panic,
               date |-> IF r.panic THEN call'.date ELSE r.date]
    /\ pc' = IF r.panic THEN "panicked" ELSE "done"

Adjust ==
    \E date \in InputDates, opt_calendar \in {None, Some(cal)},
       adjust_rule \in OptAdjustRule :
        /\ pc = "idle"
        /\ call' = [op |-> "adjust", date |-> date,
                    opt_calendar |-> opt_calendar, adjust_rule |-> adjust_rule]
        /\ AdjustReturns(adjust(date, opt_calendar, adjust_rule))
        /\ UNCHANGED <<past, cal, schedule, anchor, out>>

NextAdjust == AddHolidays \/ AddWeekends \/ IsBusinessDay \/ Adjust

SpecAdjust == Init /\ [][NextAdjust]_vars

----------------------------------------------------------------------------
(* Schedules: a Schedule borrows its calendar, which cannot change while   *)
(* the schedule lives; the calendars are ones the calls above can build.   *)

ShortSpan == 40

LongSpan == 190

\* The cap on the vector generate() collects (Once never ends it).
MaxOut == 200

ScheduleCalendars ==
    LET christmas == {from_ymd(2023, 12, 25), from_ymd(2023, 12, 26)}
    IN  { basic_calendar,
          add_holidays(basic_calendar, christmas),
          add_holidays(basic_calendar, UNION HolidayInputs),
          add_holidays(add_weekends(basic_calendar, {"Fri"}), UNION HolidayInputs) }

\* A Monday before Christmas, the Friday before a year-end weekend, a
\* month end before the leap February, and the last days of the range.
GenerateStarts ==
    { from_ymd(2023, 12, 18), from_ymd(2023, 12, 29), from_ymd(2024, 1, 31),
      MaxDate - EdgeDays - 1 }

EndOffsets == {0 - 1, 0, EdgeDays + 1, ShortSpan, LongSpan}

InitSchedule ==
    /\ \E frequency \in Frequency,
          opt_calendar \in {None} \cup {Some(c) : c \in ScheduleCalendars},
          opt_adjust_rule \in OptAdjustRule :
            /\ schedule = Schedule_new(frequency, opt_calendar, opt_adjust_rule)
            /\ cal = IF opt_calendar = None THEN Calendar_new ELSE unwrap(opt_calendar)
    /\ pc = "idle"
    /\ call = NoCall
    /\ res = NoRes
    /\ anchor = MinDate
    /\ out = <<>>
    /\ past = NoneAdded(cal)

\* The call returns r, or panics.
ScheduleNextReturns(r) ==
    /\ res' = [op |-> "schedule_next", panic |-> r.panic,
               date |-> IF r.panic THEN call'.anchor_date ELSE r.date]
    /\ pc' = IF r.panic THEN "panicked" ELSE "done"

ScheduleNext ==
    \E anchor_date \in InputDates :
        /\ pc = "idle"
        /\ call' = [op |-> "schedule_next", anchor_date |-> anchor_date]
        /\ ScheduleNextReturns(schedule_next(anchor_date, schedule.frequency,
                                             schedule.calendar, schedule.adjust_rule))
        /\ UNCHANGED <<past, cal, schedule, anchor, out>>

\* Schedule::generate, up to the creation of the iterator.
GenerateCall(anchor_date, end_date) ==
    /\ pc = "idle"
    /\ call' = [op |-> "generate", anchor_date |-> anchor_date,
                end_date |-> end_date]
    /\ IF end_not_after_anchor(anchor_date, end_date)
       THEN /\ res' = [op |-> "generate", ok |-> FALSE,
                       err |-> "Anchor date must be before end date"]
            /\ pc' = "done"
       ELSE /\ res' = NoRes
            /\ pc' = "collect"
    /\ anchor' = anchor_date
    /\ out' = <<>>
    /\ UNCHANGED <<past, cal, schedule>>

Generate ==
    \E anchor_date \in GenerateStarts, offset \in EndOffsets :
        /\ anchor_date + offset \in Dates
        /\ GenerateCall(anchor_date, anchor_date + offset)

\* take_while(..).collect() has pulled r from the iterator.
Collect(r) ==
    IF r.panic
    THEN /\ pc' = "panicked"
         /\ res' = [op |-> "generate", panic |-> TRUE]
         /\ UNCHANGED <<anchor, out>>
    ELSE /\ anchor' = r.date
         /\ IF take_while_before_end(r.date, call.end_date)
            THEN /\ out' = Append(out, r.date)
                 /\ UNCHANGED <<pc, res>>
            ELSE /\ pc' = "done"
                 /\ res' = [op |-> "generate", ok |-> TRUE, value |-> out]
                 /\ UNCHANGED out

\* One pull of the iterator by take_while(..).collect().
GenerateStep ==
    /\ pc = "collect"
    /\ Len(out) < MaxOut
    /\ Collect(schedule_iterator_next(schedule, anchor))
    /\ UNCHANGED <<past, cal, schedule, call>>

NextSchedule == ScheduleNext \/ Generate \/ GenerateStep

SpecSchedule == InitSchedule /\ [][NextSchedule]_vars

----------------------------------------------------------------------------
(* tests/setup/mod.rs: the payment schedule of the 10 year Treasury note.  *)

issue_date == from_ymd(2023, 8, 15)

maturity_date == from_ymd(2033, 8, 15)

\* payment_schedule_setup is called with a calendar; the coupon schedule
\* has none.
InitPayment ==
    /\ cal \in ScheduleCalendars
    /\ schedule = Schedule_new("Semiannual", None, None)
    /\ pc = "idle"
    /\ call = NoCall
    /\ res = NoRes
    /\ anchor = MinDate
    /\ out = <<>>
    /\ past = NoneAdded(cal)

\* coupon_schedule.generate(issue_date, maturity_date)
PaymentGenerate == GenerateCall(issue_date, maturity_date)

\* coupon_dates.unwrap(): the list is taken, or the error panics.
PaymentDates ==
    /\ pc = "done"
    /\ call.op = "generate"
    /\ IF res.ok
       THEN /\ pc' = "fractions"
            /\ res' = [op |-> "payment_schedule_setup",
                       coupon_dates_list |-> res.value, dcfs |-> <<>>,
                       settlement_dates |-> <<>>]
       ELSE /\ pc' = "panicked"
            /\ res' = [op |-> "payment_schedule_setup", panic |-> TRUE]
    /\ UNCHANGED <<past, cal, schedule, call, anchor, out>>

\* One turn of the loop over 0 .. len - 1 (len is unsigned), or its end.
PaymentFraction ==
    /\ pc = "fractions"
    /\ IF Len(res.coupon_dates_list) = 0
       THEN /\ pc' = "panicked"
            /\ res' = [op |-> "payment_schedule_setup", panic |-> TRUE]
       ELSE IF Len(res.dcfs) < Len(res.coupon_dates_list) - 1
       THEN /\ res' = [res EXCEPT !.dcfs =
                          Append(@, day_count_fraction(
                                        res.coupon_dates_list[Len(res.dcfs) + 1],
                                        res.coupon_dates_list[Len(res.dcfs) + 2],
                                        "D30360Euro", None, None))]
            /\ UNCHANGED pc
       ELSE /\ pc' = "settle"
            /\ UNCHANGED res
    /\ UNCHANGED <<past, cal, schedule, call, anchor, out>>

\* The settlement dates: every coupon date adjusted with Following.
settlement_of(coupon_dates_list, calendar) ==
    [i \in 1 .. Len(coupon_dates_list) |->
        adjust(coupon_dates_list[i], Some(calendar), Some("Following"))]

\* The three lists are returned, unless an adjustment panicked.
PaymentReturns(settled) ==
    IF \E i \in 1 .. Len(settled) : settled[i].panic
    THEN /\ pc' = "panicked"
         /\ res' = [op |-> "payment_schedule_setup", panic |-> TRUE]
    ELSE /\ pc' = "returned"
         /\ res' = [res EXCEPT !.settlement_dates =
                        [i \in 1 .. Len(settled) |-> settled[i].date]]

PaymentSettle ==
    /\ pc = "settle"
    /\ PaymentReturns(settlement_of(res.coupon_dates_list, cal))
    /\ UNCHANGED <<past, cal, schedule, call, anchor, out>>

NextPayment ==
    PaymentGenerate \/ GenerateStep \/ PaymentDates \/ PaymentFraction
        \/ PaymentSettle

SpecPayment == InitPayment /\ [][NextPayment]_vars

----------------------------------------------------------------------------
(* Day counts: the functions of algebra.rs applied to dates drawn from the *)
(* ends of the range, a year end, a leap February and ends of months.      *)

YearEndDays == 12

DayCountDates ==
    {MinDate, MinDate + EdgeDays, MaxDate - EdgeDays, MaxDate}
        \cup (from_ymd(2023, 12, 22) .. from_ymd(2023, 12, 22) + YearEndDays)
        \cup {from_ymd(2024, 1, 31), from_ymd(2024, 2, 1), from_ymd(2024, 2, 15),
              from_ymd(2024, 2, 29), from_ymd(2024, 3, 1), from_ymd(2024, 3, 31),
              from_ymd(2024, 10, 31), from_ymd(2025, 1, 1), from_ymd(2028, 1, 1)}

InitDayCount ==
    /\ cal \in ScheduleCalendars
    /\ schedule = NoSchedule
    /\ pc = "idle"
    /\ call = NoCall
    /\ res = NoRes
    /\ anchor = MinDate
    /\ out = <<>>
    /\ past = NoneAdded(cal)

\* The call returns the number r, or panics.
DayCountReturns(r) ==
    /\ res' = [op |-> "day_count_fraction", value |-> r]
    /\ pc' = IF r.panic THEN "panicked" ELSE "done"

\* The business days of at most this many days are counted.
MaxBusSpan == 250

DayCountFraction ==
    /\ pc = "idle"
    /\ \E start_date \in DayCountDates, end_date \in DayCountDates,
          daycount \in DayCount, calendar \in {None, Some(cal)},
          adjust_rule \in OptAdjustRule :
            /\ (daycount = "Bd252" /\ calendar # None)
                  => abs(end_date - start_date) <= MaxBusSpan
            /\ call' = [op |-> "day_count_fraction", start_date |-> start_date,
                        end_date |-> end_date, daycount |-> daycount,
                        calendar |-> calendar, adjust_rule |-> adjust_rule]
            /\ DayCountReturns(day_count_fraction(start_date, end_date, daycount,
                                                  calendar, adjust_rule))
    /\ UNCHANGED <<past, cal, schedule, anchor, out>>

\* The call returns the count r, or panics.
BusinessDaysReturns(r) ==
    /\ res' = [op |-> "business_days_between", value |-> r]
    /\ pc' = IF r.panic THEN "panicked" ELSE "done"

BusinessDaysBetween ==
    /\ pc = "idle"
    /\ \E start_date \in DayCountDates, end_date \in DayCountDates,
          adjust_rule \in OptAdjustRule :
            /\ abs(end_date - start_date) <= MaxBusSpan
            /\ call' = [op |-> "business_days_between", start_date |-> start_date,
                        end_date |-> end_date, calendar |-> cal,
                        adjust_rule |-> adjust_rule]
            /\ BusinessDaysReturns(business_days_between(start_date, end_date, cal,
                                                         adjust_rule))
    /\ UNCHANGED <<past, cal, schedule, anchor, out>>

\* The call returns the vector r, or panics.
BusDayScheduleReturns(r) ==
    /\ res' = [op |-> "bus_day_schedule", value |-> r]
    /\ pc' = IF r.panic THEN "panicked" ELSE "done"

BusDaySchedule ==
    /\ pc = "idle"
    /\ \E start_date \in DayCountDates, end_date \in DayCountDates,
          adjust_rule \in OptAdjustRule :
            /\ abs(end_date - start_date) <= MaxBusSpan
            /\ call' = [op |-> "bus_day_schedule", start_date |-> start_date,
                        end_date |-> end_date, calendar |-> cal,
                        adjust_rule |-> adjust_rule]
            /\ BusDayScheduleReturns(bus_day_schedule(start_date, end_date, cal,
                                                      adjust_rule))
    /\ UNCHANGED <<past, cal, schedule, anchor, out>>

NextDayCount == DayCountFraction \/ BusinessDaysBetween \/ BusDaySchedule

SpecDayCount == InitDayCount /\ [][NextDayCount]_vars

----------------------------------------------------------------------------
(* The ends of the range: adjust, and schedule_next called as the free     *)
(* function it is, on a calendar built by add_holidays and add_weekends.   *)

RangeEnds == (MinDate .. MinDate + EdgeDays) \cup (MaxDate - EdgeDays .. MaxDate)

ScheduleNextAtEnds ==
    /\ pc = "idle"
    /\ \E anchor_date \in RangeEnds, frequency \in Frequency,
          adjust_rule \in OptAdjustRule :
            /\ call' = [op |-> "schedule_next", anchor_date |-> anchor_date,
                        frequency |-> frequency, opt_calendar |-> Some(cal),
                        adjust_rule |-> adjust_rule]
            /\ ScheduleNextReturns(schedule_next(anchor_date, frequency, Some(cal),
                                                 adjust_rule))
    /\ UNCHANGED <<past, cal, schedule, anchor, out>>

NextRange == AddHolidays \/ AddWeekends \/ Adjust \/ ScheduleNextAtEnds

SpecRange == Init /\ [][NextRange]_vars

----------------------------------------------------------------------------
(* Calendars: a calendar is built by add_holidays and add_weekends, then   *)
(* merged with another one or propagated. The calendars are those of the   *)
(* tests of calendar.rs.                                                   *)

christmas_day == from_ymd(2023, 12, 25)

boxing_day == from_ymd(2023, 12, 26)

CalendarInputs ==
    { Calendar_new, basic_calendar,
      [weekend |-> {"Sat"}, holidays |-> {christmas_day}],
      [weekend |-> {"Sun"}, holidays |-> {boxing_day}],
      [weekend |-> {"Sun"}, holidays |-> {christmas_day, boxing_day}] }

\* Vectors of at most this many calendars are merged.
MaxCalendars == 3

CalendarVecs ==
    UNION {[1 .. n -> CalendarInputs] : n \in 0 .. MaxCalendars}

\* A date before the holidays above, one in their year and one years later.
TargetDates == {MinDate, from_ymd(2023, 12, 31), from_ymd(2026, 6, 1)}

InitCalendar ==
    /\ cal \in CalendarInputs
    /\ schedule = NoSchedule
    /\ pc = "idle"
    /\ call = NoCall
    /\ res = NoRes
    /\ anchor = MinDate
    /\ out = <<>>
    /\ past = NoneAdded(cal)

\* cal.union(&calendar); res holds the borrowed calendar after the call.
Union ==
    /\ pc = "idle"
    /\ \E calendar \in CalendarInputs :
          /\ call' = [op |-> "union", self |-> cal, calendar |-> calendar]
          /\ cal' = union(cal, calendar)
          /\ res' = [op |-> "union", calendar |-> calendar]
    /\ pc' = "done"
    /\ UNCHANGED <<past, schedule, anchor, out>>

\* cal.intersection(&calendar)
Intersection ==
    /\ pc = "idle"
    /\ \E calendar \in CalendarInputs :
          /\ call' = [op |-> "intersection", self |-> cal, calendar |-> calendar]
          /\ cal' = intersection(cal, calendar)
          /\ res' = [op |-> "intersection", calendar |-> calendar]
    /\ pc' = "done"
    /\ UNCHANGED <<past, schedule, anchor, out>>

\* calendar_unions(&calendars)
CalendarUnions ==
    /\ pc = "idle"
    /\ \E calendars \in CalendarVecs :
          /\ call' = [op |-> "calendar_unions", calendars |-> calendars]
          /\ res' = [op |-> "calendar_unions", value |-> calendar_unions(calendars)]
    /\ pc' = "done"
    /\ UNCHANGED <<past, cal, schedule, anchor, out>>

\* cal.holiday_propagate(target_date)
HolidayPropagate ==
    /\ pc = "idle"
    /\ \E target_date \in TargetDates :
          /\ call' = [op |-> "holiday_propagate", self |-> cal,
                      target_date |-> target_date]
          /\ cal' = holiday_propagate(cal, target_date)
    /\ res' = NoRes
    /\ pc' = "done"
    /\ UNCHANGED <<past, schedule, anchor, out>>

NextCalendar ==
    \/ AddHolidays
    \/ AddWeekends
    \/ Union
    \/ Intersection
    \/ CalendarUnions
    \/ HolidayPropagate

SpecCalendar == InitCalendar /\ [][NextCalendar]_vars

----------------------------------------------------------------------------
(* Conventions: a variant is written and the text parsed back, or a text   *)
(* is parsed: the texts Display writes, the ones FromStr matches, and      *)
(* texts that differ from them by case, by a blank or by a suffix.         *)

Texts ==
    UNION {{to_string(enum, v) : v \in VariantsOf(enum)} : enum \in Enums}
        \cup {"Bd2532", "", "act360", "ACT365", "ActActISDA", "D30360Euro",
              " Following", "Following ", "Modfollowing", "Weekly,Daily"}

InitConventions ==
    /\ cal = Calendar_new
    /\ schedule = NoSchedule
    /\ pc = "idle"
    /\ call = NoCall
    /\ res = NoRes
    /\ anchor = MinDate
    /\ out = <<>>
    /\ past = NoneAdded(cal)

\* v.to_string()
ToString ==
    /\ pc = "idle"
    /\ \E enum \in Enums : \E v \in VariantsOf(enum) :
          /\ call' = [op |-> "to_string", enum |-> enum, self |-> v]
          /\ res' = [op |-> "to_string", value |-> to_string(enum, v)]
    /\ pc' = "written"
    /\ UNCHANGED <<past, cal, schedule, anchor, out>>

\* The text written is parsed back: of is the variant it was written for.
ParseWritten ==
    /\ pc = "written"
    /\ call' = [op |-> "from_str", enum |-> call.enum, s |-> res.value,
                of |-> Some(call.self)]
    /\ res' = [op |-> "from_str", value |-> from_str(call.enum, res.value)]
    /\ pc' = "done"
    /\ UNCHANGED <<past, cal, schedule, anchor, out>>

\* s.parse::<enum>()
Parse ==
    /\ pc = "idle"
    /\ \E enum \in Enums, s \in Texts :
          /\ call' = [op |-> "from_str", enum |-> enum, s |-> s, of |-> None]
          /\ res' = [op |-> "from_str", value |-> from_str(enum, s)]
    /\ pc' = "done"
    /\ UNCHANGED <<past, cal, schedule, anchor, out>>

NextConventions == ToString \/ ParseWritten \/ Parse

SpecConventions == InitConventions /\ [][NextConventions]_vars

----------------------------------------------------------------------------
(* The vocabulary of the claims, stated on the calendar's two sets.        *)

BusinessDay(x, c) == weekday(x) \notin c.weekend /\ x \notin c.holidays

\* x is the earliest business day strictly after d.
EarliestAfter(x, d, c) ==
    x > d /\ BusinessDay(x, c) /\ \A y \in (d + 1) .. (x - 1) : ~BusinessDay(y, c)

\* x is the latest business day strictly before d.
LatestBefore(x, d, c) ==
    x < d /\ BusinessDay(x, c) /\ \A y \in (x + 1) .. (d - 1) : ~BusinessDay(y, c)

FollowingOf(d, c) ==
    LET k == CHOOSE k \in 1 .. (MaxDate - d) : EarliestAfter(d + k, d, c) IN d + k

PrecedingOf(d, c) ==
    LET k == CHOOSE k \in 1 .. (d - MinDate) : LatestBefore(d - k, d, c) IN d - k

\* The representable days of the calendar month of d.
MonthOf(d) ==
    LET first == d - day(d) + 1
    IN  (first .. first + days_in_month(year(d), month(d)) - 1) \cap Dates

\* adjust was called with a calendar, this rule and a non-business date.
AdjustedBy(rule) ==
    /\ call.op = "adjust"
    /\ call.opt_calendar # None
    /\ call.adjust_rule = Some(rule)
    /\ ~BusinessDay(call.date, unwrap(call.opt_calendar))

CallCal == unwrap(call.opt_calendar)

----------------------------------------------------------------------------
(* Claims on adjust and is_business_day, under SpecAdjust.                 *)

\* C1: for a non-business date, Following returns the earliest business day
\* strictly after it and Preceding the latest business day strictly before
\* it (weekend days and holidays are both skipped); the search fails only
\* when the representable range holds no such day.
C1_FollowingPrecedingEarliest ==
    /\ AdjustedBy("Following") =>
          IF res.panic
          THEN \A x \in (call.date + 1) .. MaxDate : ~BusinessDay(x, CallCal)
          ELSE EarliestAfter(res.date, call.date, CallCal)
    /\ AdjustedBy("Preceding") =>
          IF res.panic
          THEN \A x \in MinDate .. (call.date - 1) : ~BusinessDay(x, CallCal)
          ELSE LatestBefore(res.date, call.date, CallCal)

\* Following has skipped a holiday and a weekend day.
C1_Witness ==
    /\ AdjustedBy("Following")
    /\ ~res.panic
    /\ \E x \in (call.date + 1) .. (res.date - 1) : x \in CallCal.holidays
    /\ \E x \in call.date .. (res.date - 1) : weekday(x) \in CallCal.weekend

C3_NearestCloserTieFollowing ==
    (AdjustedBy("Nearest") /\ ~res.panic) =>
        LET f == FollowingOf(call.date, CallCal)
            p == PrecedingOf(call.date, CallCal)
        IN  res.date = IF f - call.date <= call.date - p THEN f ELSE p

\* A tie: both neighbours are equally far, and the later one is returned.
C3_Witness ==
    /\ AdjustedBy("Nearest")
    /\ ~res.panic
    /\ res.date > call.date
    /\ LatestBefore(call.date - (res.date - call.date), call.date, CallCal)

\* C4: for a non-business date, HalfMonthModFollowing returns the Preceding
\* result when the Following result is in another month, or when the date
\* is on or before the 15th and the Following result after the 15th; in
\* every other case the Following result.
C4_HalfMonthModFollowing ==
    (AdjustedBy("HalfMonthModFollowing") /\ ~res.panic) =>
        LET f == FollowingOf(call.date, CallCal)
        IN  IF \/ month(f) # month(call.date)
               \/ day(call.date) <= 15 /\ day(f) > 15
            THEN LatestBefore(res.date, call.date, CallCal)
            ELSE res.date = f

\* The mid-month case: the Following result is in the month, but across
\* the 15th, and the Preceding result is returned.
C4_Witness ==
    /\ AdjustedBy("HalfMonthModFollowing")
    /\ ~res.panic
    /\ res.date < call.date
    /\ day(call.date) <= 15
    /\ month(FollowingOf(call.date, CallCal)) = month(call.date)
    /\ day(FollowingOf(call.date, CallCal)) > 15

\* C5: for a non-business date, ModPreceding returns the Preceding result
\* when it is in the month of the date, and the Following result otherwise.
C5_ModPreceding ==
    (AdjustedBy("ModPreceding") /\ ~res.panic) =>
        LET p == PrecedingOf(call.date, CallCal)
        IN  IF month(p) = month(call.date)
            THEN res.date = p
            ELSE EarliestAfter(res.date, call.date, CallCal)

\* The Preceding result is in the month before, and the Following result
\* is returned.
C5_Witness ==
    /\ AdjustedBy("ModPreceding")
    /\ ~res.panic
    /\ res.date > call.date
    /\ month(PrecedingOf(call.date, CallCal)) # month(call.date)

\* C6: adjust returns the date unchanged, for every rule and no rule, when
\* there is no calendar or the date is a business day; and for a
\* non-business date when the rule is absent or Unadjusted.
C6_AdjustUnchanged ==
    (/\ call.op = "adjust"
     /\ \/ call.opt_calendar = None
        \/ BusinessDay(call.date, CallCal)
        \/ call.adjust_rule \in {None, Some("Unadjusted")})
        => ~res.panic /\ res.date = call.date

\* A business day given with a rule that moves dates, on a calendar that
\* has a holiday; and the date came back.
C6_Witness ==
    /\ call.op = "adjust"
    /\ call.opt_calendar # None
    /\ call.adjust_rule = Some("Preceding")
    /\ BusinessDay(call.date, CallCal)
    /\ call.date - 1 \in CallCal.holidays
    /\ res.date = call.date

\* C7: is_business_day is false exactly when the weekday of the date is in
\* the weekend set or the date is in the holiday set, and it always answers.
C7_IsBusinessDayIff ==
    call.op = "is_business_day" =>
        /\ res.value \in BOOLEAN
        /\ res.value = FALSE <=>
              (weekday(call.date) \in call.calendar.weekend
                  \/ call.date \in call.calendar.holidays)

\* A holiday that is not a weekend day is no business day.
C7_Witness ==
    /\ call.op = "is_business_day"
    /\ res.value = FALSE
    /\ call.date \in call.calendar.holidays
    /\ weekday(call.date) \notin call.calendar.weekend
    /\ call.calendar.weekend # {}

----------------------------------------------------------------------------
(* Claims on schedule_next and generate, under SpecSchedule.               *)

\* generate has returned Ok(list).
Generated == call.op = "generate" /\ pc = "done" /\ res.ok

AdjustingRules == AdjustRule \ {"Unadjusted"}

\* C8: for every frequency but Once, every calendar or none and every rule
\* or none, a date returned by schedule_next is strictly after the anchor,
\* also when the rule pulls the stepped date back onto or before the anchor.
C8_ScheduleNextAfterAnchor ==
    (call.op = "schedule_next" /\ schedule.frequency # "Once" /\ ~res.panic)
        => res.date > call.anchor_date

\* Daily with Preceding from the eve of a non-business day: the step is
\* pulled back onto the anchor, and a later date is returned.
C8_Witness ==
    /\ call.op = "schedule_next"
    /\ schedule.frequency = "Daily"
    /\ schedule.adjust_rule = Some("Preceding")
    /\ schedule.calendar # None
    /\ BusinessDay(call.anchor_date, cal)
    /\ ~BusinessDay(call.anchor_date + 1, cal)
    /\ ~res.panic
    /\ res.date > call.anchor_date + 1

C10_GenerateBusinessDaysAnyRule ==
    (Generated /\ schedule.calendar # None) =>
        \A i \in 1 .. Len(res.value) : BusinessDay(res.value[i], cal)

\* C10 amended: with a calendar and one of the six rules that move dates,
\* every date generate returns is a business day of the calendar.
C10_GenerateBusinessDays ==
    (/\ Generated
     /\ schedule.calendar # None
     /\ schedule.adjust_rule \in {Some(r) : r \in AdjustingRules})
        => \A i \in 1 .. Len(res.value) : BusinessDay(res.value[i], cal)

\* A weekly schedule with Following whose first step fell on a non-business
\* day and was moved.
C10_Witness ==
    /\ Generated
    /\ schedule.calendar # None
    /\ schedule.frequency = "Weekly"
    /\ schedule.adjust_rule = Some("Following")
    /\ Len(res.value) >= 2
    /\ ~BusinessDay(call.anchor_date + 7, cal)
    /\ res.value[1] > call.anchor_date + 7

\* C11: generate returns the typed error and no dates whenever end <= start
\* (end = start included), and Ok with the collected list whenever end >
\* start and the call returns; no step of generate changes the schedule or
\* its calendar.
C11_GenerateErrOrOk ==
    [][call'.op = "generate" =>
          /\ schedule' = schedule
          /\ cal' = cal
          /\ pc' = "done" =>
                IF call'.end_date <= call'.anchor_date
                THEN /\ res' = [op |-> "generate", ok |-> FALSE,
                                err |-> "Anchor date must be before end date"]
                     /\ out' = <<>>
                ELSE /\ res'.ok
                     /\ res'.value = out']_vars

\* generate was called with end = start and has returned the error.
C11_Witness ==
    /\ call.op = "generate"
    /\ pc = "done"
    /\ call.end_date = call.anchor_date
    /\ ~res.ok
    /\ out = <<>>

\* C12 as stated: for every schedule, Once included, and every start < end,
\* generate terminates with a finite list: every pull of the iterator ends
\* the collecting loop or moves the iterator on, towards the end date (the
\* iterator's state is its anchor, so a pull that leaves the anchor where
\* it was and the loop running is repeated for ever).
C12_GenerateTerminates ==
    [][(pc = "collect" /\ pc' = "collect") => anchor' > anchor]_vars

----------------------------------------------------------------------------
(* Claims on the payment schedule, under SpecPayment.                      *)

\* The exact fraction p / q.
FracIs(r, p, q) == ~r.panic /\ r.num * q = p * r.den

\* C13 as stated: Schedule(Semiannual, None, None).generate(2023-08-15,
\* 2033-08-15) returns 20 dates, consecutive dates six months apart, and
\* the D30360Euro fraction of every consecutive pair is exactly 1/2.
C13_TwentyDatesSixMonthsApart ==
    pc = "returned" =>
        /\ Len(res.coupon_dates_list) = 20
        /\ \A i \in 1 .. Len(res.coupon_dates_list) - 1 :
              Some(res.coupon_dates_list[i + 1])
                  = checked_add_months(res.coupon_dates_list[i], 6)
        /\ \A i \in 1 .. Len(res.dcfs) : FracIs(res.dcfs[i], 1, 2)

\* C14 as stated: the list generate(2023-08-15, 2033-08-15) returns starts
\* with the anchor date and ends with the end date, which is on the grid:
\* 21 dates, giving 20 fractions of consecutive pairs.
C14_AnchorThroughEnd ==
    /\ Generated =>
          /\ Len(res.value) = 21
          /\ res.value[1] = call.anchor_date
          /\ res.value[Len(res.value)] = call.end_date
    /\ pc = "returned" => Len(res.dcfs) = 20

----------------------------------------------------------------------------
(* Claims on the day counts, under SpecDayCount.                           *)

RECURSIVE gcd(_, _)
gcd(a, b) == IF b = 0 THEN a ELSE gcd(b, a % b)

\* The quotient num / den in lowest terms.
Lowest(r) ==
    <<r.num \div gcd(abs(r.num), r.den), r.den \div gcd(abs(r.num), r.den)>>

\* Two numbers returned are equal.
FracEq(p, q) == ~p.panic /\ ~q.panic /\ Lowest(p) = Lowest(q)

\* day_count_fraction was called with this convention and has returned.
Counted(daycount) ==
    call.op = "day_count_fraction" /\ call.daycount = daycount /\ pc = "done"

\* What the call made with the two dates swapped returns.
SwappedCall ==
    day_count_fraction(call.end_date, call.start_date, call.daycount,
                       call.calendar, call.adjust_rule)

\* C15 as stated: for D30360Euro and D30365, with or without a calendar,
\* day_count_fraction(s, e) is not negative and equals
\* day_count_fraction(e, s).
C15_D30OrderIndependent ==
    (Counted("D30360Euro") \/ Counted("D30365")) =>
        /\ res.value.num >= 0
        /\ FracEq(res.value, SwappedCall)

\* C16 as stated: for Bd252 with a calendar, day_count_fraction(s, e)
\* equals day_count_fraction(e, s): reversed dates give the fraction of the
\* swapped interval.
C16_Bd252OrderIndependent ==
    (Counted("Bd252") /\ call.calendar # None) => FracEq(res.value, SwappedCall)

\* The rule day_count_fraction adjusts with.
CallRule ==
    IF call.calendar = None THEN call.adjust_rule
    ELSE default_Following(call.adjust_rule)

\* The dates day_count_fraction computes on, for a call that has returned.
StartAdjusted == adjust(call.start_date, call.calendar, CallRule).date

EndAdjusted == adjust(call.end_date, call.calendar, CallRule).date

\* Adjusting the date again, as the call with the dates swapped does,
\* returns it.
Readjusted(d) == adjust(d, call.calendar, CallRule) = Returned(d)

\* C17 as stated: for ActActISDA, whenever the adjusted start is after the
\* adjusted end the call calls itself exactly once, with the adjusted dates
\* swapped; the inner call does not swap again, and
\* day_count_fraction(s, e) equals day_count_fraction(e, s).
C17_ActActSwapsWheneverReversed ==
    Counted("ActActISDA") =>
        /\ StartAdjusted > EndAdjusted => res.value.swaps = 1
        /\ res.value.swaps <= 1
        /\ Readjusted(StartAdjusted) /\ Readjusted(EndAdjusted)
        /\ FracEq(res.value, SwappedCall)

\* C17 amended: the call calls itself, exactly once, when the adjusted
\* start is after the adjusted end and in a later year, and not at all
\* otherwise (reversed dates of one year are counted on the absolute
\* difference); re-adjusting the adjusted dates leaves them unchanged, and
\* day_count_fraction(s, e) equals day_count_fraction(e, s).
C17_ActActSwapsOnce ==
    Counted("ActActISDA") =>
        /\ res.value.swaps =
              IF StartAdjusted > EndAdjusted
                 /\ year(StartAdjusted) # year(EndAdjusted)
              THEN 1 ELSE 0
        /\ Readjusted(StartAdjusted) /\ Readjusted(EndAdjusted)
        /\ FracEq(res.value, SwappedCall)

\* A call with a calendar whose start was moved, across the year end and
\* after the adjusted end, has swapped.
C17_Witness ==
    /\ Counted("ActActISDA")
    /\ call.calendar # None
    /\ StartAdjusted # call.start_date
    /\ year(StartAdjusted) # year(call.start_date)
    /\ StartAdjusted > EndAdjusted
    /\ res.value.swaps = 1

\* What the call made with the convention D30360Euro returns.
EuroCall ==
    day_count_fraction(call.start_date, call.end_date, "D30360Euro",
                       call.calendar, call.adjust_rule)

\* C18 as stated: for all dates the numerator of D30365 is the numerator
\* of D30360Euro, computed after clamping a day of month of 31 to 30 on
\* both ends; the two differ only in the divisor, 365 and 360.
C18_D30365NumeratorOfEuro ==
    Counted("D30365") =>
        /\ res.value.num = EuroCall.num
        /\ res.value.den = 365
        /\ EuroCall.den = 360

\* C18 amended: the numerator of D30365 is 360*(Y2-Y1) + 30*(M2-M1) +
\* (D2-D1) on the days of month as they are, without the clamping: it is
\* the numerator of D30360Euro plus one when the adjusted end is a 31st and
\* less one when the adjusted start is; the divisors are 365 and 360.
C18_D30365NumeratorUnclamped ==
    Counted("D30365") =>
        /\ res.value.num =
              360 * (year(EndAdjusted) - year(StartAdjusted))
                  + 30 * (month(EndAdjusted) - month(StartAdjusted))
                  + (day(EndAdjusted) - day(StartAdjusted))
        /\ res.value.num =
              EuroCall.num + (IF day(EndAdjusted) = 31 THEN 1 ELSE 0)
                           - (IF day(StartAdjusted) = 31 THEN 1 ELSE 0)
        /\ res.value.den = 365
        /\ EuroCall.den = 360

\* D30365 was counted up to a 31st from a day that is not one.
C18_Witness ==
    /\ Counted("D30365")
    /\ day(EndAdjusted) = 31
    /\ day(StartAdjusted) # 31
    /\ StartAdjusted < EndAdjusted

\* C19: with Bd252 and no calendar day_count_fraction never returns a
\* number: for every start, end and rule it panics with the message of the
\* missing calendar, which no generated schedule stands behind.
C19_Bd252NeedsCalendar ==
    (/\ call.op = "day_count_fraction"
     /\ call.daycount = "Bd252"
     /\ call.calendar = None)
        => pc = "panicked" /\ res.value = MissingCalendar

\* Bd252 was asked for without a calendar, between dates in order that a
\* schedule could be generated for.
C19_Witness ==
    /\ call.op = "day_count_fraction"
    /\ call.daycount = "Bd252"
    /\ call.calendar = None
    /\ call.adjust_rule = Some("Following")
    /\ call.start_date < call.end_date
    /\ call.end_date - call.start_date <= MaxBusSpan
    /\ pc = "panicked"

\* The business days d of calendar c with first <= d < last.
BusinessDaysFrom(first, last, c) ==
    {d \in first .. (last - 1) : BusinessDay(d, c)}

\* The ends of the schedule business_days_between counts.
NewStart ==
    adjust(call.start_date, Some(call.calendar),
           default_Following(call.adjust_rule)).date

NewEnd ==
    adjust(call.end_date, Some(call.calendar),
           default_Following(call.adjust_rule)).date

\* C20 as stated: for every calendar, every rule and all start <= end,
\* business_days_between is the number of business days d with
\* adjust(start) <= d < adjust(end).
C20_BusinessDaysCounted ==
    (/\ call.op = "business_days_between"
     /\ pc = "done"
     /\ call.start_date <= call.end_date)
        => res.value.value
              = Cardinality(BusinessDaysFrom(NewStart, NewEnd, call.calendar))

----------------------------------------------------------------------------
(* Claims on the sum of fractions.                                         *)

\* The days of a common year times the days of a leap year: every
\* ActActISDA fraction is a whole number of parts of this size.
YearParts == year_base(2023) * year_base(2024)

\* The ActActISDA fraction is a whole number of YearParts.
InYearParts(r) == YearParts % Lowest(r)[2] = 0

\* That number.
Parts(r) == Lowest(r)[1] * (YearParts \div Lowest(r)[2])

\* The ActActISDA fraction between two dates, without a calendar.
ActActFraction(a, b) == day_count_fraction(a, b, "ActActISDA", None, call.adjust_rule)

IsNewYear(d) == month(d) = 1 /\ day(d) = 1

\* C30: without a calendar the ActActISDA fraction adds up over adjacent
\* intervals: for dates a <= b <= c, the fraction from a to c is, as an
\* exact quotient, the sum of the fractions from a to b and from b to c;
\* and from 1 January to 1 January k years later it is exactly k.
C30_ActActAdditive ==
    (/\ Counted("ActActISDA")
     /\ call.calendar = None
     /\ call.start_date <= call.end_date)
        => /\ InYearParts(res.value)
           /\ \A b \in DayCountDates :
                 (call.start_date <= b /\ b <= call.end_date)
                    => /\ InYearParts(ActActFraction(call.start_date, b))
                       /\ InYearParts(ActActFraction(b, call.end_date))
                       /\ Parts(res.value)
                             = Parts(ActActFraction(call.start_date, b))
                                 + Parts(ActActFraction(b, call.end_date))
           /\ (IsNewYear(call.start_date) /\ IsNewYear(call.end_date))
                 => FracIs(res.value, year(call.end_date) - year(call.start_date), 1)

\* A fraction was returned from a day of a leap year to a day of a common
\* year with a 1 January four years apart in between.
C30_Witness ==
    /\ Counted("ActActISDA")
    /\ call.calendar = None
    /\ is_leap_year(year(call.start_date))
    /\ ~is_leap_year(year(call.end_date))
    /\ ~IsNewYear(call.start_date)
    /\ ~IsNewYear(call.end_date)
    /\ year(call.end_date) >= year(call.start_date) + 5
    /\ \E b \in DayCountDates :
          /\ IsNewYear(b)
          /\ year(call.start_date) + 4 = year(b)

----------------------------------------------------------------------------
(* Claims on the schedule of business days.                                *)

\* bus_day_schedule has returned a vector.
Scheduled == call.op = "bus_day_schedule" /\ pc = "done"

\* The dates of a vector, as a set.
Elements(v) == {v[i] : i \in 1 .. Len(v)}

StrictlyIncreasing(v) == \A i \in 1 .. Len(v) - 1 : v[i] < v[i + 1]

\* The rule bus_day_schedule was called with adjusts.
CallAdjusts == unwrap(default_Following(call.adjust_rule)) \in AdjustingRules

CallUnder(adjust_rule) ==
    IF call.op = "bus_day_schedule"
    THEN bus_day_schedule(call.start_date, call.end_date, call.calendar, adjust_rule)
    ELSE day_count_fraction(call.start_date, call.end_date, call.daycount,
                            call.calendar, adjust_rule)

\* The call was made with a calendar.
WithCalendar ==
    \/ call.op = "bus_day_schedule"
    \/ call.op = "day_count_fraction" /\ call.calendar # None

\* C22: with a calendar and no rule, day_count_fraction and bus_day_schedule
\* return what they return under Following; with no calendar
\* day_count_fraction computes on the dates as given, as it does with a
\* calendar that has no weekend and no holiday, and returns the same under
\* every rule.
C22_NoRuleIsFollowing ==
    /\ (WithCalendar /\ call.adjust_rule = None)
          => res.value = CallUnder(Some("Following"))
    /\ (call.op = "day_count_fraction" /\ call.calendar = None)
          => /\ call.daycount # "Bd252"
                    => res.value = day_count_fraction(call.start_date, call.end_date,
                                                      call.daycount, Some(Calendar_new),
                                                      call.adjust_rule)
             /\ \A adjust_rule \in OptAdjustRule : res.value = CallUnder(adjust_rule)

\* A fraction was returned for a calendar and no rule, from a date that is
\* not a business day.
C22_Witness ==
    /\ Counted("Act360")
    /\ call.calendar # None
    /\ call.adjust_rule = None
    /\ ~BusinessDay(call.start_date, unwrap(call.calendar))
    /\ call.start_date < call.end_date

----------------------------------------------------------------------------
(* Claims on the calendar.                                                 *)

\* C23: after any sequence of add_holidays and add_weekends calls, holidays
\* is the union of the initial holidays and every set of dates added, and
\* weekend the union of the initial weekend and every set of weekdays
\* added, in whatever order and however often the calls were made; a call
\* that adds no set of weekdays leaves weekend unchanged and a call that
\* adds no set of dates leaves holidays unchanged.
C23_AddedSetsUnited ==
    /\ [](pc = "idle" =>
            /\ cal.holidays = past.initial.holidays \cup UNION past.holidays
            /\ cal.weekend = past.initial.weekend \cup UNION past.weekends)
    /\ [][pc' = "idle" =>
            /\ past'.holidays # past.holidays => cal'.weekend = cal.weekend
            /\ past'.weekends # past.weekends => cal'.holidays = cal.holidays]_vars

\* Holidays were added twice and a weekend once to a calendar that had one
\* of the holidays and one of the weekdays before.
C23_Witness ==
    /\ pc = "idle"
    /\ Cardinality(past.holidays) >= 2
    /\ past.weekends # {}
    /\ past.initial.holidays \cap UNION past.holidays # {}
    /\ past.initial.weekend \cap UNION past.weekends # {}

\* The weekends, and the holidays, of the calendars of a vector.
WeekendsOf(calendars) == {calendars[i].weekend : i \in 1 .. Len(calendars)}

HolidaysOf(calendars) == {calendars[i].holidays : i \in 1 .. Len(calendars)}

\* C24: union sets weekend and holidays to the unions of the two calendars'
\* sets, intersection to their intersections, both leave the other calendar
\* as it was, and calendar_unions returns the calendar union folds from the
\* empty one: the unions of the weekends and of the holidays of the vector.
C24_UnionAndIntersection ==
    /\ call.op = "union" =>
          /\ cal.weekend = call.self.weekend \cup call.calendar.weekend
          /\ cal.holidays = call.self.holidays \cup call.calendar.holidays
          /\ res.calendar = call.calendar
    /\ call.op = "intersection" =>
          /\ cal.weekend = call.self.weekend \cap call.calendar.weekend
          /\ cal.holidays = call.self.holidays \cap call.calendar.holidays
          /\ res.calendar = call.calendar
    /\ call.op = "calendar_unions" =>
          /\ res.value.weekend = UNION WeekendsOf(call.calendars)
          /\ res.value.holidays = UNION HolidaysOf(call.calendars)

\* Two calendars that share a weekday and a holiday, and differ in both,
\* were intersected.
C24_Witness ==
    /\ call.op = "intersection"
    /\ cal.weekend # {}
    /\ cal.holidays # {}
    /\ cal.weekend # call.self.weekend
    /\ cal.holidays # call.self.holidays

\* The years from the year of holiday h to the target year, or back to it.
YearsTowards(h, target_date) ==
    IF year(h) <= year(target_date) THEN year(h) .. year(target_date)
    ELSE year(target_date) .. year(h)

\* C25 as stated: after holiday_propagate(target) every holiday that was in
\* the calendar is still in it, its day and month are a holiday in every
\* year up to the target's year, or back to it, the weekend is unchanged and
\* an empty holiday list stays empty.
C25_HolidaysPropagated ==
    call.op = "holiday_propagate" =>
        /\ call.self.holidays \subseteq cal.holidays
        /\ \A h \in call.self.holidays : \A y \in YearsTowards(h, call.target_date) :
              from_ymd(y, month(h), day(h)) \in cal.holidays
        /\ cal.weekend = call.self.weekend
        /\ call.self.holidays = {} => cal.holidays = {}

----------------------------------------------------------------------------
(* Claims on adjust applied again, under SpecAdjust.                       *)

\* C27: with a calendar and one of the six rules that move dates, a date
\* adjust returns is a business day of the calendar; and for every rule,
\* or none, with a calendar or none, adjusting the date returned again
\* returns it.
C27_AdjustedIsBusinessDay ==
    (call.op = "adjust" /\ pc = "done") =>
        /\ (/\ call.opt_calendar # None
            /\ call.adjust_rule \in {Some(r) : r \in AdjustingRules})
              => BusinessDay(res.date, CallCal)
        /\ adjust(res.date, call.opt_calendar, call.adjust_rule) = Returned(res.date)

\* ModPreceding has moved a date forwards over a holiday, the days before it
\* in its month not being business days.
C27_Witness ==
    /\ AdjustedBy("ModPreceding")
    /\ pc = "done"
    /\ res.date > call.date
    /\ CallCal.holidays # {}

----------------------------------------------------------------------------
(* Claims on the correction of schedule_next, under SpecSchedule.          *)

\* The anchor stepped by the frequency, as schedule_next returns it when no
\* calendar adjusts it.
RawStep == schedule_next(call.anchor_date, schedule.frequency, None, None)

\* The stepped date, adjusted.
AdjustedStep == adjust(RawStep.date, schedule.calendar, schedule.adjust_rule)

\* schedule_next stepped to a date that the rule moved onto the anchor or
\* before it.
CorrectionFired ==
    /\ call.op = "schedule_next"
    /\ schedule.frequency # "Once"
    /\ schedule.calendar # None
    /\ schedule.adjust_rule \in {Some(r) : r \in AdjustingRules}
    /\ ~RawStep.panic
    /\ ~AdjustedStep.panic
    /\ AdjustedStep.date <= call.anchor_date

\* The search day by day that goes on from the stepped date: res_date is the
\* adjusted date tried last, the next one is the day dayi days after from.
RECURSIVE ContinuedFrom(_, _, _)
ContinuedFrom(from, res_date, dayi) ==
    IF res_date.panic THEN Panicked
    ELSE IF res_date.date <= call.anchor_date
         THEN IF checked_add_days(from, dayi) = None THEN Panicked
              ELSE ContinuedFrom(from,
                                 adjust(unwrap(checked_add_days(from, dayi)),
                                        schedule.calendar, schedule.adjust_rule),
                                 dayi + 1)
         ELSE res_date

\* C28: whenever the stepped date is adjusted onto the anchor or before it,
\* under any frequency but Once and any rule that moves dates, the date
\* schedule_next returns is the first business day after the anchor, and
\* the search that goes on day by day from the stepped date ends as the one
\* schedule_next restarts after the anchor does.
C28_CorrectionReturnsNextBusinessDay ==
    CorrectionFired =>
        /\ ~res.panic => EarliestAfter(res.date, call.anchor_date, cal)
        /\ res.panic = ContinuedFrom(RawStep.date, AdjustedStep, 1).panic
        /\ ~res.panic => res.date = ContinuedFrom(RawStep.date, AdjustedStep, 1).date

\* A monthly step into a month of holidays was moved back onto the anchor,
\* and the first business day of the month after was returned.
C28_Witness ==
    /\ CorrectionFired
    /\ schedule.frequency = "Monthly"
    /\ ~res.panic
    /\ res.date > RawStep.date
    /\ month(res.date) # month(RawStep.date)

----------------------------------------------------------------------------
(* Claims on the conventions, under SpecConventions.                       *)

\* The parse error of each enum.
ParseErrorOf(enum) ==
    CASE enum = "DayCount"   -> "ParseDayCountError"
      [] enum = "AdjustRule" -> "ParseAdjustRuleError"
      [] enum = "Frequency"  -> "ParseFrequencyError"

\* The texts Display writes for the variants of an enum.
DisplayTexts(enum) == {to_string(enum, v) : v \in VariantsOf(enum)}

\* C29 as stated: for every variant v of DayCount, AdjustRule and
\* Frequency, parsing the text Display writes for v returns Ok(v), and a
\* text that Display writes for no variant is rejected with the parse error
\* of the enum.
C29_DisplayFromStrInverse ==
    call.op = "from_str" =>
        /\ call.of # None => res.value = Ok(unwrap(call.of))
        /\ call.s \notin DisplayTexts(call.enum)
              => res.value = Err(ParseErrorOf(call.enum))

----------------------------------------------------------------------------
(* Claims on the ends of the range, under SpecRange.                       *)

\* The range holds no business day after d, or none before d.
NoneAfter(d, c) == \A x \in (d + 1) .. MaxDate : ~BusinessDay(x, c)

NoneBefore(d, c) == \A x \in MinDate .. (d - 1) : ~BusinessDay(x, c)

\* schedule_next was called with a calendar, a rule that moves dates and a
\* frequency that steps.
SteppedByRule ==
    /\ call.op = "schedule_next"
    /\ call.frequency # "Once"
    /\ call.adjust_rule \in {Some(r) : r \in AdjustingRules}

\* C26: when the range holds no business day after a non-business date,
\* Following panics, and so does Preceding when it holds none before it; a
\* search that returns, returns a business day, and every search ends; so
\* does the stepping of schedule_next, which panics when the range holds no
\* business day after the anchor and else returns a business day after it.
C26_SearchPanicsOutOfRange ==
    /\ AdjustedBy("Following") =>
          /\ pc \in {"done", "panicked"}
          /\ NoneAfter(call.date, CallCal) => pc = "panicked"
          /\ pc = "done" => BusinessDay(res.date, CallCal)
    /\ AdjustedBy("Preceding") =>
          /\ pc \in {"done", "panicked"}
          /\ NoneBefore(call.date, CallCal) => pc = "panicked"
          /\ pc = "done" => BusinessDay(res.date, CallCal)
    /\ SteppedByRule =>
          /\ pc \in {"done", "panicked"}
          /\ NoneAfter(call.anchor_date, CallCal) => pc = "panicked"
          /\ pc = "done" =>
                BusinessDay(res.date, CallCal) /\ res.date > call.anchor_date

\* Preceding has panicked on the second day of the range, the first being
\* no business day either.
C26_Witness ==
    /\ AdjustedBy("Preceding")
    /\ call.date = MinDate + 1
    /\ CallCal.holidays # {}
    /\ pc = "panicked"

====
